---- MODULE Spec2Model ----
(***************************************************************************)
(* State-machine model of flash_fpga.py (iCESugar-nano FPGA flash tool):   *)
(* main(), retry_operation(), run_cmd(), run_cmd_with_progress(),           *)
(* build_fpga() and program_fpga(), with the SIGINT/SIGTERM handler as a    *)
(* concurrent action.                                                       *)
(***************************************************************************)
EXTENDS Integers, Sequences, FiniteSets, TLC

(* ---------------- program constants ---------------- *)
MAX_RETRIES == 3
RETRY_DELAY == 2
BUILD_TIMEOUT == 300
PROGRAM_TIMEOUT == 60
REQUIRED_TOOLS == <<"yosys", "nextpnr-ice40", "icepack", "icesprog">>

\* timeout=None of subprocess.run, and the absence of a running child
NoTimeout == 0
NoChild == -1

(* ---------------- bounds of the model ---------------- *)
\* number of interrupt signals delivered during one run
MaxSignals == 2
\* the count of activation subshell runs stops at this value
MaxSourcings == 2

(* ---------------- vocabulary ---------------- *)
Stages == {"synth", "pnr", "pack"}
Ops == Stages \cup {"icesprog", "dragdrop"}
Artifacts == {"json", "asc", "bin"}

\* output_files[...] written by each build stage
StageOutput(o) ==
    CASE o = "synth" -> "json"
      [] o = "pnr"   -> "asc"
      [] o = "pack"  -> "bin"

EnvVars == {"PATH", "VIRTUAL_ENV"}
\* the ambient process environment of the run
AmbientEnv == [v \in EnvVars |-> IF v = "PATH" THEN "sys" ELSE "unset"]
\* what "source environment && env" prints: PATH is prefixed, a variable is added
SourcedEnv == [v \in EnvVars |-> IF v = "PATH" THEN "oss:sys" ELSE "oss"]
NoEnv == [v \in EnvVars |-> "unset"]

GpioForms == {"none", "badpin", "mode", "read", "write", "write_noval", "noop"}

DefaultArgs ==
    [parse |-> "ok", erase |-> FALSE, probe |-> FALSE, read |-> FALSE,
     gpio |-> "none", jtag_sel |-> FALSE, clk_sel |-> FALSE,
     verilog_file |-> TRUE, build_only |-> FALSE, force_dragdrop |-> FALSE,
     no_clean |-> FALSE, verbose |-> FALSE]

\* command lines of the model: help, a rejected command line, every
\* combination of device flags, every combination of build flags
ArgSpace ==
    {[DefaultArgs EXCEPT !.parse = p] : p \in {"help", "error"}}
    \cup {[DefaultArgs EXCEPT !.erase = e, !.probe = p, !.read = r, !.gpio = g,
                              !.jtag_sel = j, !.clk_sel = c, !.verilog_file = v] :
            e \in BOOLEAN, p \in BOOLEAN, r \in BOOLEAN, g \in GpioForms,
            j \in BOOLEAN, c \in BOOLEAN, v \in BOOLEAN}
    \cup {[DefaultArgs EXCEPT !.verilog_file = v, !.build_only = b,
                              !.force_dragdrop = d, !.no_clean = n, !.verbose = vb] :
            v \in BOOLEAN, b \in BOOLEAN, d \in BOOLEAN, n \in BOOLEAN,
            vb \in BOOLEAN}

\* no exception is leaving retry_operation
NoError == [aggregate |-> FALSE, name |-> "none", cause |-> "none"]

VARIABLES
    args,               \* parsed command line
    envFileExists,      \* os.path.exists(OSS_CAD_SUITE_ENV)
    environ,            \* os.environ
    original_env,       \* main's snapshot of os.environ
    shutdown_requested, \* the global cancellation flag
    signals,            \* signals delivered so far
    pc,                 \* position of the main flow
    exitcode,           \* value returned by main(), -1 while running
    op,                 \* operation wrapped by the current retry_operation call
    attempt,            \* loop variable of retry_operation
    rstatus,            \* current retry_operation call: none/running/returned/raised
    lastExc,            \* cause of the most recent exception
    sleeps,             \* backoff delays taken by the current retry_operation call
    calls,              \* invocations of operation() by the current call
    fails,              \* attempts of the current call that ended in an exception
    sleepCancelled,     \* a signal arrived during a backoff sleep of the current call
    disk,               \* output artifacts that exist on disk
    removeFailed,       \* artifacts whose os.remove raised OSError in the last cleanup
    cleanupRemoved,     \* artifacts removed by the last cleanup
    completed,          \* operations whose retry_operation call returned
    exhausted,          \* operations whose retry_operation call raised
    icesprogW,          \* "icesprog -w <bitstream>" has been started
    usbSeen,            \* result of check_usb_device: none/absent/present
    childTimeout,       \* timeout bounding the running child: NoChild, NoTimeout or seconds
    examined,           \* tools check_required_tools has passed to check_command
    missing_tools,      \* the missing_tools list of check_required_tools
    unresolved,         \* tools found neither on the ambient nor on the sourced PATH
    probeResult,        \* how the "icesprog -p" of check_icelink_status ended
    devIssued,          \* device command handed to run_cmd by main, or "none"
    mountLog,           \* discovery steps of the current find_icelink_mount call
    ddSteps,            \* steps of the current program_with_dragdrop call
    destOnMount,        \* the copied bitstream exists on the mount point
    syncResult,         \* how the sync of the current program_with_dragdrop call ended
    mode,               \* how the running child's output is handled: none/captured/inherited/streamed
    stray,              \* children left unreaped by run_cmd_with_progress that are still alive
    raised,             \* the exception leaving retry_operation, NoError otherwise
    sourcings,          \* runs of the activation subshell so far, counted up to MaxSourcings
    verilog_arg,        \* args.verilog_file as typed, a sequence of characters
    pcf_arg,            \* args.pcf_file as typed, empty when not given
    derived,            \* main has computed the names below
    pcf_file,           \* the pin-constraint path main uses
    basename,           \* the base name main hands to build_fpga
    output_files,       \* build_fpga's output_files dictionary
    logFile,            \* lines of icesugar_flash.log, each the number of its writing
    written,            \* lines ever written to the log file
    emitted,            \* log records emitted to the file handler
    rotated,            \* how the last rotate_log_file call ended: none/ok/failed
    config,             \* push_files' config argument: "empty" for {}, else "set"
    files,              \* push_files' files argument, the files numbered from 1
    pushPc,             \* position of push_files
    mkdir,              \* how the ssh "mkdir -p" of ensure_remote_directory ended
    scp,                \* per file handled so far: missing, or how its scp ended
    success_count,      \* push_files' success_count
    pushed              \* value returned by push_files: none/true/false

vars == <<args, envFileExists, environ, original_env, shutdown_requested, signals,
          pc, exitcode, op, attempt, rstatus, lastExc, sleeps, calls, fails,
          sleepCancelled, disk, removeFailed, cleanupRemoved, completed, exhausted, icesprogW,
          usbSeen, childTimeout, examined, missing_tools, unresolved, probeResult,
          devIssued, mountLog, ddSteps, destOnMount, syncResult, mode, stray, raised,
          sourcings,
          verilog_arg, pcf_arg, derived, pcf_file, basename, output_files,
          logFile, written, emitted, rotated, config, files, pushPc, mkdir, scp,
          success_count, pushed>>

envVars == <<envFileExists, environ, original_env>>
retryVars == <<op, attempt, rstatus, lastExc, sleeps, calls, fails, sleepCancelled>>
histVars == <<completed, exhausted, icesprogW, usbSeen>>
diskVars == <<disk, removeFailed, cleanupRemoved>>
toolVars == <<examined, missing_tools, unresolved>>
devVars == <<probeResult, devIssued>>
ddVars == <<mountLog, ddSteps, destOnMount, syncResult>>
pathVars == <<verilog_arg, pcf_arg, derived, pcf_file, basename, output_files>>
logVars == <<logFile, written, emitted, rotated>>
pushVars == <<config, files, pushPc, mkdir, scp, success_count, pushed>>
auxVars == <<stray, raised, sourcings, pathVars, logVars, pushVars>>
exceptStray == <<raised, sourcings, pathVars, logVars, pushVars>>
exceptRaised == <<stray, sourcings, pathVars, logVars, pushVars>>
exceptSourcings == <<stray, raised, pathVars, logVars, pushVars>>
\* everything the main flow of flash_fpga.py works on
flowVars == <<args, envVars, shutdown_requested, signals, pc, exitcode, retryVars,
              diskVars, histVars, childTimeout, mode, toolVars, devVars, ddVars, stray,
              raised, sourcings>>

\* the main flow before its first step, apart from the command line, the
\* activation script and the files on disk
InitFlow ==
    /\ environ = AmbientEnv
    /\ original_env = NoEnv
    /\ shutdown_requested = FALSE
    /\ signals = 0
    /\ pc = "main_start"
    /\ exitcode = -1
    /\ op = "none"
    /\ attempt = 0
    /\ rstatus = "none"
    /\ lastExc = "none"
    /\ sleeps = <<>>
    /\ calls = 0
    /\ fails = 0
    /\ sleepCancelled = FALSE
    /\ removeFailed = {}
    /\ cleanupRemoved = {}
    /\ completed = {}
    /\ exhausted = {}
    /\ icesprogW = FALSE
    /\ usbSeen = "none"
    /\ childTimeout = NoChild
    /\ examined = <<>>
    /\ missing_tools = <<>>
    /\ unresolved = {}
    /\ probeResult = "none"
    /\ devIssued = "none"
    /\ mountLog = <<>>
    /\ ddSteps = <<>>
    /\ destOnMount = FALSE
    /\ syncResult = "none"
    /\ mode = "none"
    /\ stray = {}
    /\ raised = NoError
    /\ sourcings = 0

\* no names derived yet
InitPathsIdle ==
    /\ verilog_arg = <<>>
    /\ pcf_arg = <<>>
    /\ derived = FALSE
    /\ pcf_file = <<>>
    /\ basename = <<>>
    /\ output_files = [k \in Artifacts |-> <<>>]

\* no log file yet
InitLogIdle ==
    /\ logFile = <<>>
    /\ written = 0
    /\ emitted = 0
    /\ rotated = "none"

\* push_files of ssh_push.py is not running
InitPushIdle ==
    /\ config = "empty"
    /\ files = <<>>
    /\ pushPc = "idle"
    /\ mkdir = "none"
    /\ scp = <<>>
    /\ success_count = 0
    /\ pushed = "none"

Init ==
    /\ args \in ArgSpace
    /\ envFileExists \in BOOLEAN
    /\ disk \in {{}, {"bin"}, Artifacts}
    /\ InitFlow
    /\ InitPathsIdle
    /\ InitLogIdle
    /\ InitPushIdle

(* ---------------- signal_handler ---------------- *)

\* line 50: the value the handler stores in the flag
HandlerStores_toggle(flag) == ~flag
HandlerStores(flag) == TRUE

\* lines 47-51
signal_handler ==
    /\ pc # "done"
    /\ signals < MaxSignals
    /\ signals' = signals + 1
    /\ shutdown_requested' = HandlerStores(shutdown_requested)
    /\ sleepCancelled' = (sleepCancelled \/ pc = "r_sleep")
    /\ UNCHANGED <<auxVars, args, childTimeout, mode, toolVars, devVars, ddVars, envVars, pc, exitcode, op, attempt, rstatus, lastExc,
                   sleeps, calls, fails, diskVars, histVars>>

(* ---------------- helpers translated from the code ---------------- *)

\* source_oss_cad_suite: a copy of os.environ, overridden by the variables
\* printed by the activation subshell when the script exists and sources
source_oss_cad_suite(env, exists, ok) ==
    IF exists /\ ok THEN [v \in EnvVars |-> SourcedEnv[v]] ELSE env

\* retry_operation, line 133: re-raise on the last attempt, whatever the error
ShouldReraise_timeoutFatal(a, exc) == a = MAX_RETRIES - 1 \/ exc = "timeout"
ShouldReraise(a, exc) == a = MAX_RETRIES - 1

\* retry_operation, lines 132-134: on the last attempt the bare "raise"
\* re-raises the exception e of that attempt as it is; line 140, which
\* builds an error from operation_name, is never reached
RaisedError(o, e) == [aggregate |-> FALSE, name |-> "none", cause |-> e]

\* source_oss_cad_suite, lines 204-211: each call runs the subshell when the
\* activation script exists; k calls are made
Sourced(n, exists, k) ==
    IF ~exists THEN n
    ELSE IF n + k > MaxSourcings THEN MaxSourcings ELSE n + k

\* retry_operation, line 137: delay * (2 ** attempt)
BackoffDelay_constant(d, a) == d
BackoffDelay(d, a) == d * (2 ^ a)

\* build_fpga, lines 799-823: yosys and nextpnr stream when verbose, icepack
\* never does; program_with_icesprog uses run_cmd
Streamed(o, verbose) == verbose /\ o \in {"synth", "pnr"}

\* the timeout= argument the step functions hand to run_cmd and
\* run_cmd_with_progress: lines 800-823 and 863
StepTimeout(o) == IF o = "icesprog" THEN PROGRAM_TIMEOUT ELSE BUILD_TIMEOUT

\* the timeout that bounds the wait for the child: subprocess.run(timeout=t)
\* in run_cmd; run_cmd_with_progress takes t but Popen, readline and wait()
\* are called without it
AppliedTimeout(streamed, t) == IF streamed THEN NoTimeout ELSE t

\* what becomes of the child's output: run_cmd_with_progress reads it line by
\* line from a pipe (lines 355-382); run_cmd hands capture_output=False to
\* subprocess.run when verbose, so the child writes to the console itself
\* (lines 307-316), and captures it otherwise (lines 317-328)
OutputMode(streamed, verbose) ==
    IF streamed THEN "streamed"
    ELSE IF verbose THEN "inherited" ELSE "captured"

\* ways a child process started by run_cmd / run_cmd_with_progress can end;
\* only subprocess.run(timeout=...) can raise TimeoutExpired
ChildOutcomes(streamed) ==
    IF streamed THEN {"ok", "nonzero", "notfound"}
                ELSE {"ok", "nonzero", "timeout", "notfound"}

\* run_cmd_with_progress, line 369: process.terminate() sends SIGTERM before
\* the raise; the child is not waited for
TerminateOnCancel_skipped == "running"
TerminateOnCancel == "signalled"

\* where control goes when retry_operation returns for operation o
ReturnTarget_swapped(o) ==
    CASE o = "synth"    -> "pack"
      [] o = "pack"     -> "pnr"
      [] o = "pnr"      -> "b_verify"
      [] o = "icesprog" -> "pf_true"
      [] o = "dragdrop" -> "pf_true"
ReturnTarget(o) ==
    CASE o = "synth"    -> "pnr"
      [] o = "pnr"      -> "pack"
      [] o = "pack"     -> "b_verify"
      [] o = "icesprog" -> "pf_true"
      [] o = "dragdrop" -> "pf_true"

\* where control goes when retry_operation raises for operation o
RaiseTarget_noFallback(o) ==
    CASE o \in Stages   -> "b_cleanup"
      [] o = "icesprog" -> "pf_false"
      [] o = "dragdrop" -> "pf_false"
RaiseTarget(o) ==
    CASE o \in Stages   -> "b_cleanup"
      [] o = "icesprog" -> "dragdrop"
      [] o = "dragdrop" -> "pf_false"

\* program_fpga, lines 911-920: the first strategy tried
FirstStrategy_ignoreForce(force) == "icesprog"
FirstStrategy(force) == IF force THEN "dragdrop" ELSE "icesprog"

\* build_fpga, lines 832-834: every expected output file exists
OutputsVerified_binOnly(d) == "bin" \in d
OutputsVerified(d) == Artifacts \subseteq d

\* build_fpga, line 841: the files the failure cleanup walks over
CleanupTargets_lastOnly == {"bin"}
CleanupTargets == Artifacts

\* where shutil.which finds a tool: on the PATH of os.environ, only on the
\* PATH of the environment returned by source_oss_cad_suite, or nowhere
Resolutions == {"ambient", "sourced", "nowhere"}

\* check_command, lines 240-249: found under the current PATH, or under the
\* PATH of the sourced environment
check_command_ambientOnly(where) == where = "ambient"
check_command(where) == where \in {"ambient", "sourced"}

\* check_required_tools, lines 735-737: the loop has no break
KeepChecking_stopAtFirst(missing) == missing = <<>>
KeepChecking(missing) == TRUE

\* check_required_tools, lines 734-737: the loop over REQUIRED_TOOLS, from
\* index i on; res maps each tool to where it resolves
RECURSIVE ToolLoop(_, _, _, _)
ToolLoop(i, res, ex, missing) ==
    IF i > Len(REQUIRED_TOOLS) \/ ~KeepChecking(missing)
    THEN [examined |-> ex, missing |-> missing]
    ELSE ToolLoop(i + 1, res, Append(ex, REQUIRED_TOOLS[i]),
                  IF check_command(res[REQUIRED_TOOLS[i]])
                  THEN missing
                  ELSE Append(missing, REQUIRED_TOOLS[i]))

Range(q) == {q[i] : i \in 1..Len(q)}

\* check_required_tools, lines 739-740: raise when the list is not empty
ToolsOk_neverRaise(missing) == TRUE
ToolsOk(missing) == missing = <<>>

\* check_usb_device, lines 409-446: None ("absent") when lsusb fails, when
\* the device id is not listed or when no serial device is found
check_usb_device(lsusbOk, idListed, ttyFound) ==
    IF ~lsusbOk THEN "absent"
    ELSE IF ~idListed THEN "absent"
    ELSE IF ttyFound THEN "present"
    ELSE "absent"

\* main, lines 1179-1187: a missing device only logs a warning
UsbTarget_fatal(port) == IF port = "absent" THEN "m_except" ELSE "build"
UsbTarget(port) == "build"

\* ways the "icesprog -p" run by check_icelink_status can end: exit 0, exit 0
\* with "iCELink open fail" in the output, non-zero exit, timeout after
\* 5 s, executable not found
ProbeResults == {"ok", "open_fail_rc0", "nonzero", "timeout", "notfound"}

\* check_icelink_status, lines 454-474
check_icelink_status_rcOnly(r) == r \in {"ok", "open_fail_rc0"}
check_icelink_status(r) == r = "ok"

\* what "lsblk -f" shows: the command fails, an iCELink line with a mount
\* point field, an iCELink line without one, no iCELink line
LsblkResults == {"failed", "mount", "label_only", "nolabel"}

Step(name, result) == [s |-> name, r |-> result]

\* check_existing_icelink_mount, lines 491-506: the glob of the well-known
\* mount paths runs when the listing succeeded without giving a mount point
NeedGlob_always(l) == TRUE
NeedGlob(l) == l \in {"label_only", "nolabel"}

\* check_existing_icelink_mount, lines 482-513, as the steps it takes; a
\* failing lsblk returns None from the except clauses
check_existing_icelink_mount(l, g) ==
    IF l = "failed" THEN <<Step("lsblk", "failed")>>
    ELSE <<Step("lsblk", IF l = "mount" THEN "found" ELSE "none")>>
         \o (IF NeedGlob(l) THEN <<Step("glob", g)>> ELSE <<>>)

\* the value check_existing_icelink_mount returns is a mount point
FoundMount(steps) == steps[Len(steps)].r = "found"

\* find_and_mount_icelink_device, lines 634-635: after a failed first mount a
\* second command without -t is issued unless the type was "auto"
RetryMount_always(fs) == TRUE
RetryMount(fs) == fs # "auto"

\* find_and_mount_icelink_device, lines 649-650: the verification that lets
\* the function return mount_point
MountVerified(ism) == IF ism THEN "found" ELSE "none"

\* find_and_mount_icelink_device, lines 598-663: the filesystem type from
\* blkid, the mount commands issued and the os.path.ismount verification
MountSteps(fs, rc1, rc2, ism) ==
    <<Step("blkid", fs)>> \o
    (IF rc1 = "timeout" THEN <<Step("mount", "timeout")>>
     ELSE IF rc1 = "ok"
          THEN <<Step("mount", "ok"), Step("ismount", MountVerified(ism))>>
     ELSE IF RetryMount(fs)
          THEN IF rc2 = "ok"
               THEN <<Step("mount", "failed"), Step("mount", "ok"),
                      Step("ismount", MountVerified(ism))>>
               ELSE <<Step("mount", "failed"), Step("mount", rc2)>>
     ELSE <<Step("mount", "failed"), Step("ismount", MountVerified(ism))>>)

\* program_with_dragdrop, lines 902-906: the copy is on the device
VerifyOk_always(onMount) == TRUE
VerifyOk(onMount) == onMount

\* the single device command selected by main's if-chain, lines 1054-1143
DeviceCommand_clockFirst(a) ==
    IF a.clk_sel THEN "clk"
    ELSE IF a.erase THEN "erase"
    ELSE IF a.probe THEN "probe"
    ELSE IF a.read THEN "read"
    ELSE IF a.gpio # "none" THEN "gpio"
    ELSE IF a.jtag_sel THEN "jtag"
    ELSE "none"
DeviceCommand(a) ==
    IF a.erase THEN "erase"
    ELSE IF a.probe THEN "probe"
    ELSE IF a.read THEN "read"
    ELSE IF a.gpio # "none" THEN "gpio"
    ELSE IF a.jtag_sel THEN "jtag"
    ELSE IF a.clk_sel THEN "clk"
    ELSE "none"

(* ---------------- control transfer ---------------- *)

\* entry of retry_operation(o)
StartRetry_carryOver(o) ==
    /\ op' = o
    /\ attempt' = attempt
    /\ rstatus' = "running"
    /\ lastExc' = "none"
    /\ sleeps' = <<>>
    /\ calls' = calls
    /\ fails' = fails
    /\ sleepCancelled' = FALSE
    /\ pc' = "r_check"
StartRetry(o) ==
    /\ op' = o
    /\ attempt' = 0
    /\ rstatus' = "running"
    /\ lastExc' = "none"
    /\ sleeps' = <<>>
    /\ calls' = 0
    /\ fails' = 0
    /\ sleepCancelled' = FALSE
    /\ pc' = "r_check"

\* go to target: an operation name starts its retry_operation call
Goto(target) ==
    IF target \in Ops
    THEN StartRetry(target)
    ELSE /\ pc' = target
         /\ UNCHANGED <<op, attempt, lastExc, sleeps, calls, fails, sleepCancelled>>

\* lines 1196-1198 and 1218: the exit status after program_fpga returned
ProgramExit_always0(programmed) == 0
ProgramExit(programmed) == IF programmed THEN 0 ELSE 1

\* main returns code
Return(code) ==
    /\ pc' = "done"
    /\ exitcode' = code

(* ---------------- main ---------------- *)

\* lines 935-946: snapshot os.environ, then source the toolchain environment
MainStart ==
    /\ pc = "main_start"
    /\ original_env' = environ
    /\ \E ok \in BOOLEAN :
          environ' = IF envFileExists
                     THEN source_oss_cad_suite(environ, envFileExists, ok)
                     ELSE environ
    /\ sourcings' = Sourced(sourcings, envFileExists, 1)
    /\ pc' = "parse"
    /\ UNCHANGED <<exceptSourcings, args, childTimeout, mode, toolVars, devVars, ddVars, envFileExists, shutdown_requested, signals, exitcode,
                   retryVars, diskVars, histVars>>

\* lines 1031-1051: help, argument errors, logging setup
MainParse ==
    /\ pc = "parse"
    /\ CASE args.parse = "help"  -> Return(0)
         [] args.parse = "error" -> Return(1)
         [] OTHER                -> pc' = "dispatch" /\ UNCHANGED exitcode
    /\ UNCHANGED <<auxVars, args, childTimeout, mode, toolVars, devVars, ddVars, envVars, shutdown_requested, signals, retryVars,
                   diskVars, histVars>>

\* lines 1054-1143: the selected device command, up to its run_cmd call
MainDeviceCheck ==
    /\ pc = "dispatch"
    /\ DeviceCommand(args) # "none"
    /\ IF DeviceCommand(args) = "jtag"
       THEN Return(1) /\ probeResult' = probeResult
       ELSE \E r \in ProbeResults :
               /\ probeResult' = r
               /\ IF ~check_icelink_status(r) THEN Return(1)
                  ELSE IF DeviceCommand(args) = "gpio"
                          /\ args.gpio \in {"badpin", "write_noval", "noop"}
                       THEN Return(1)
                  ELSE pc' = "dev_cmd" /\ UNCHANGED exitcode
    /\ UNCHANGED <<auxVars, args, childTimeout, mode, toolVars, devIssued, ddVars, envVars, shutdown_requested, signals, retryVars,
                   diskVars, histVars>>

\* run_cmd of a device command, lines 303-305: cancellation check before the child
MainDeviceRun ==
    /\ pc = "dev_cmd"
    /\ IF shutdown_requested
       THEN /\ lastExc' = "cancelled_cmd"
            /\ pc' = "m_except"
            /\ UNCHANGED <<childTimeout, mode, devIssued>>
       ELSE /\ lastExc' = lastExc
            /\ pc' = "dev_child"
            /\ childTimeout' = AppliedTimeout(FALSE, NoTimeout)
            /\ mode' = OutputMode(FALSE, DeviceCommand(args) \notin {"erase", "clk"})
            /\ devIssued' = DeviceCommand(args)
    /\ sourcings' = Sourced(sourcings, envFileExists, 1)
    /\ UNCHANGED <<exceptSourcings, args, toolVars, probeResult, ddVars, envVars, shutdown_requested, signals, exitcode, op, attempt,
                   rstatus, sleeps, calls, fails, sleepCancelled, diskVars, histVars>>

\* the device command's child ends (no timeout is passed), then return 0
MainDeviceExit ==
    /\ pc = "dev_child"
    /\ \E outcome \in {"ok", "nonzero", "notfound"} :
          IF outcome = "ok"
          THEN Return(0) /\ lastExc' = lastExc
          ELSE lastExc' = outcome /\ pc' = "m_except" /\ UNCHANGED exitcode
    /\ childTimeout' = NoChild
    /\ mode' = "none"
    /\ UNCHANGED <<auxVars, args, toolVars, devVars, ddVars, envVars, shutdown_requested, signals, op, attempt,
                   rstatus, sleeps, calls, fails, sleepCancelled, diskVars, histVars>>

\* lines 1145-1173: no device command; verilog file required; validate inputs
MainInputs ==
    /\ pc = "dispatch"
    /\ DeviceCommand(args) = "none"
    /\ IF ~args.verilog_file
       THEN Return(1) /\ lastExc' = lastExc
       ELSE \E valid \in BOOLEAN :
               IF valid
               THEN pc' = "tools" /\ lastExc' = lastExc /\ UNCHANGED exitcode
               ELSE pc' = "m_except" /\ lastExc' = "validation" /\ UNCHANGED exitcode
    /\ UNCHANGED <<auxVars, args, childTimeout, mode, toolVars, devVars, ddVars, envVars, shutdown_requested, signals, op, attempt,
                   rstatus, sleeps, calls, fails, sleepCancelled, diskVars, histVars>>

\* line 1176: check_required_tools, lines 728-740; a tool resolves under
\* the sourced PATH only when that PATH differs from the one of os.environ
MainTools ==
    /\ pc = "tools"
    /\ \E res \in [Range(REQUIRED_TOOLS) -> Resolutions] :
          /\ \A t \in Range(REQUIRED_TOOLS) :
                res[t] = "sourced" =>
                    (envFileExists /\ environ["PATH"] # SourcedEnv["PATH"])
          /\ LET r == ToolLoop(1, res, <<>>, <<>>) IN
                /\ examined' = r.examined
                /\ missing_tools' = r.missing
                /\ unresolved' = {t \in Range(REQUIRED_TOOLS) : res[t] = "nowhere"}
                /\ sourcings' = Sourced(sourcings, envFileExists,
                        Cardinality({i \in 1..Len(r.examined) :
                                        res[r.examined[i]] # "ambient"}))
                /\ IF ToolsOk(r.missing)
                   THEN pc' = "usb" /\ lastExc' = lastExc
                   ELSE pc' = "m_except" /\ lastExc' = "tools_missing"
    /\ UNCHANGED <<exceptSourcings, args, childTimeout, mode, devVars, ddVars, envVars, shutdown_requested,
                   signals, exitcode, op, attempt, rstatus, sleeps, calls, fails,
                   sleepCancelled, diskVars, histVars>>

\* lines 1179-1182: check_usb_device, absence only warns
MainCheckUsb ==
    /\ pc = "usb"
    /\ \E lsusbOk \in BOOLEAN, idListed \in BOOLEAN, ttyFound \in BOOLEAN :
          usbSeen' = check_usb_device(lsusbOk, idListed, ttyFound)
    /\ pc' = UsbTarget(usbSeen')
    /\ UNCHANGED <<auxVars, args, childTimeout, mode, toolVars, devVars, ddVars, envVars, shutdown_requested, signals, exitcode, retryVars,
                   diskVars, completed, exhausted, icesprogW>>

\* build_fpga, lines 783-827: first stage enters retry_operation
BuildStart ==
    /\ pc = "build"
    /\ StartRetry("synth")
    /\ UNCHANGED <<auxVars, args, childTimeout, mode, toolVars, devVars, ddVars, envVars, shutdown_requested, signals, exitcode, diskVars,
                   histVars>>

(* ---------------- retry_operation ---------------- *)

\* line 125: `if shutdown_requested:` at the top of every attempt
CancelObserved_firstAttemptOnly(flag, a) == flag /\ a = 0
CancelObserved(flag, a) == flag

\* lines 123-128: cancellation check, then operation() is invoked
RetryCheck ==
    /\ pc = "r_check"
    /\ IF CancelObserved(shutdown_requested, attempt)
       THEN lastExc' = "cancelled" /\ pc' = "r_except" /\ calls' = calls
       ELSE lastExc' = lastExc /\ pc' = "r_call" /\ calls' = calls + 1
    /\ UNCHANGED <<auxVars, args, childTimeout, mode, toolVars, devVars, ddVars, envVars, shutdown_requested, signals, exitcode, op, attempt,
                   rstatus, sleeps, fails, sleepCancelled, diskVars, histVars>>

\* run_cmd, lines 303-326: cancellation check, then the child is started
RunCmdEnter ==
    /\ pc = "r_call"
    /\ op # "dragdrop"
    /\ ~Streamed(op, args.verbose)
    /\ IF shutdown_requested
       THEN /\ lastExc' = "cancelled_cmd"
            /\ pc' = "r_except"
            /\ icesprogW' = icesprogW
            /\ childTimeout' = childTimeout
            /\ mode' = mode
       ELSE /\ lastExc' = lastExc
            /\ pc' = "r_child"
            /\ icesprogW' = (icesprogW \/ op = "icesprog")
            /\ childTimeout' = AppliedTimeout(FALSE, StepTimeout(op))
            /\ mode' = OutputMode(FALSE, args.verbose)
    /\ sourcings' = Sourced(sourcings, envFileExists, 1)
    /\ UNCHANGED <<exceptSourcings, args, toolVars, devVars, ddVars, envVars, shutdown_requested, signals, exitcode, op, attempt,
                   rstatus, sleeps, calls, fails, sleepCancelled, diskVars,
                   completed, exhausted, usbSeen>>

\* run_cmd_with_progress, lines 354-363: Popen without a prior check
RunCmdProgressEnter ==
    /\ pc = "r_call"
    /\ Streamed(op, args.verbose)
    /\ pc' = "r_child"
    /\ childTimeout' = AppliedTimeout(TRUE, StepTimeout(op))
    /\ mode' = OutputMode(TRUE, TRUE)
    /\ sourcings' = Sourced(sourcings, envFileExists, 1)
    /\ UNCHANGED <<exceptSourcings, args, toolVars, devVars, ddVars, envVars, shutdown_requested, signals, exitcode, op, attempt,
                   rstatus, lastExc, sleeps, calls, fails, sleepCancelled, diskVars,
                   histVars>>

\* the child ends: exit zero, non-zero exit, timeout, or executable not found;
\* a build tool may have written its output file
ChildExit ==
    /\ pc = "r_child"
    /\ \E outcome \in ChildOutcomes(Streamed(op, args.verbose)), wrote \in BOOLEAN :
          /\ (outcome = "notfound" \/ op \notin Stages) => ~wrote
          /\ outcome = "timeout" => childTimeout # NoTimeout
          /\ disk' = IF wrote THEN disk \cup {StageOutput(op)} ELSE disk
          /\ IF outcome = "ok"
             THEN lastExc' = lastExc /\ pc' = "r_return"
             ELSE lastExc' = outcome /\ pc' = "r_except"
    /\ childTimeout' = NoChild
    /\ mode' = "none"
    /\ UNCHANGED <<auxVars, args, toolVars, devVars, ddVars, envVars, shutdown_requested, signals, exitcode, op, attempt,
                   rstatus, sleeps, calls, fails, sleepCancelled, removeFailed,
                   cleanupRemoved, histVars>>

\* run_cmd_with_progress, lines 368-370: the poll loop sees the flag,
\* terminates the child and raises; the child is left unreaped
StreamCancel ==
    /\ pc = "r_child"
    /\ Streamed(op, args.verbose)
    /\ shutdown_requested
    /\ lastExc' = "cancelled_stream"
    /\ pc' = "r_except"
    /\ childTimeout' = NoChild
    /\ mode' = "none"
    /\ stray' = stray \cup {TerminateOnCancel}
    /\ UNCHANGED <<exceptStray, args, toolVars, devVars, ddVars, envVars, shutdown_requested, signals, exitcode, op, attempt,
                   rstatus, sleeps, calls, fails, sleepCancelled, diskVars, histVars>>

\* run_cmd_with_progress, lines 372-382 and 397-401: readline or print raises
\* while the child runs (undecodable output, closed console); the handler
\* calls process.terminate() without wait() and raises
StreamReadError ==
    /\ pc = "r_child"
    /\ Streamed(op, args.verbose)
    /\ lastExc' = "read_error"
    /\ pc' = "r_except"
    /\ childTimeout' = NoChild
    /\ mode' = "none"
    /\ stray' = stray \cup {"signalled"}
    /\ UNCHANGED <<exceptStray, args, toolVars, devVars, ddVars, envVars, shutdown_requested, signals, exitcode, op, attempt,
                   rstatus, sleeps, calls, fails, sleepCancelled, diskVars, histVars>>

\* a terminated child that nobody waits for exits at a time of its own
StrayExit ==
    /\ stray # {}
    /\ stray' = {}
    /\ UNCHANGED <<exceptStray, args, childTimeout, mode, toolVars, devVars, ddVars, envVars, shutdown_requested, signals,
                   pc, exitcode, retryVars, diskVars, histVars>>

(* ---------------- program_with_dragdrop ---------------- *)

ddFrame == <<auxVars, args, childTimeout, mode, toolVars, devVars, envVars, shutdown_requested,
             signals, exitcode, op, attempt, rstatus, sleeps, calls, fails,
             sleepCancelled, diskVars, histVars>>

\* program_with_dragdrop, lines 867-873: mount_point is a local assigned from
\* find_icelink_mount() in every call; no call takes it from an earlier one
ReusesMount_afterFirst(a) == a > 0
ReusesMount(a) == FALSE

\* find_icelink_mount, lines 674-677: first check for an existing mount
DDCheckExisting ==
    /\ pc = "r_call"
    /\ op = "dragdrop"
    /\ IF ReusesMount(attempt)
       THEN mountLog' = <<>> /\ pc' = "dd_access"
       ELSE \E l \in LsblkResults, g \in {"found", "none"} :
               /\ mountLog' = check_existing_icelink_mount(l, g)
               /\ pc' = IF FoundMount(mountLog') THEN "dd_access" ELSE "dd_active"
    /\ ddSteps' = <<"resolve">>
    /\ syncResult' = "none"
    /\ UNCHANGED <<ddFrame, lastExc, destOnMount>>

\* find_and_mount_icelink_device, lines 518-524: it checks again for an
\* existing mount
DDActiveRecheck ==
    /\ pc = "dd_active"
    /\ \E l \in LsblkResults, g \in {"found", "none"} :
          /\ mountLog' = mountLog \o <<Step("active", "none")>>
                                  \o check_existing_icelink_mount(l, g)
          /\ pc' = IF FoundMount(mountLog') THEN "dd_access" ELSE "dd_discover"
    /\ UNCHANGED <<ddFrame, lastExc, ddSteps, destOnMount, syncResult>>

\* lines 526-564: find the device node by lsblk, else by blkid on /dev/sd[a-d]
DDDiscover ==
    /\ pc = "dd_discover"
    /\ \E l \in LsblkResults, b \in {"device", "none"} :
          LET r == IF l = "failed" THEN "failed"
                   ELSE IF l \in {"mount", "label_only"} THEN "device"
                   ELSE b
          IN /\ mountLog' = Append(mountLog, Step("discover", r))
             /\ pc' = IF r = "device" THEN "dd_mounttable" ELSE "dd_mount_error"
    /\ UNCHANGED <<ddFrame, lastExc, ddSteps, destOnMount, syncResult>>

\* lines 566-589: the device is already in the mount table, else the mount
\* point directory is created
DDMountTable ==
    /\ pc = "dd_mounttable"
    /\ \E m \in {"listed", "not_listed", "failed"}, made \in BOOLEAN :
          IF m = "listed"
          THEN /\ mountLog' = Append(mountLog, Step("mounttable", "found"))
               /\ pc' = "dd_access"
          ELSE /\ mountLog' = mountLog \o <<Step("mounttable", "none"),
                                             Step("makedirs", IF made THEN "ok" ELSE "failed")>>
               /\ pc' = IF made THEN "dd_mount" ELSE "dd_mount_error"
    /\ UNCHANGED <<ddFrame, lastExc, ddSteps, destOnMount, syncResult>>

\* lines 591-663: choose the filesystem type, mount, verify the mount point
DDMount ==
    /\ pc = "dd_mount"
    /\ \E fs \in {"vfat", "auto"}, rc1 \in {"ok", "failed", "timeout"},
          rc2 \in {"ok", "failed", "timeout"}, ism \in BOOLEAN :
          /\ mountLog' = mountLog \o MountSteps(fs, rc1, rc2, ism)
          /\ pc' = IF FoundMount(mountLog') THEN "dd_access" ELSE "dd_mount_error"
    /\ UNCHANGED <<ddFrame, lastExc, ddSteps, destOnMount, syncResult>>

\* program_with_dragdrop, lines 873-875: find_icelink_mount raised
DDResolveFailed ==
    /\ pc = "dd_mount_error"
    /\ lastExc' = "mount_error"
    /\ mountLog' = <<>>
    /\ pc' = "r_except"
    /\ UNCHANGED <<ddFrame, ddSteps, destOnMount, syncResult>>

\* lines 877-880: write permission on the mount point
DDAccess ==
    /\ pc = "dd_access"
    /\ ddSteps' = Append(ddSteps, "access")
    /\ mountLog' = <<>>
    /\ \E writable \in BOOLEAN :
          IF writable
          THEN pc' = "dd_copy" /\ lastExc' = lastExc
          ELSE pc' = "r_except" /\ lastExc' = "no_write_permission"
    /\ UNCHANGED <<ddFrame, destOnMount, syncResult>>

\* lines 882-889: shutil.copy2 of the bitstream
DDCopy ==
    /\ pc = "dd_copy"
    /\ ddSteps' = Append(ddSteps, "copy")
    /\ \E copied \in BOOLEAN :
          IF copied
          THEN pc' = "dd_sync" /\ lastExc' = lastExc /\ destOnMount' = TRUE
          ELSE pc' = "r_except" /\ lastExc' = "copy_failed"
                                /\ destOnMount' = destOnMount
    /\ UNCHANGED <<ddFrame, mountLog, syncResult>>

\* ways subprocess.run(["sync"], check=True, timeout=10) can end, line 893
SyncResults == {"ok", "failed", "notfound", "timeout"}

\* line 894: except (CalledProcessError, FileNotFoundError, TimeoutExpired)
SyncIgnored_timeoutOnly(r) == r = "timeout"
SyncIgnored(r) == r \in {"failed", "notfound", "timeout"}

\* lines 891-895: sync; an exception the except clause names is only logged
DDSync ==
    /\ pc = "dd_sync"
    /\ ddSteps' = Append(ddSteps, "sync")
    /\ \E r \in SyncResults :
          /\ syncResult' = r
          /\ IF r = "ok" \/ SyncIgnored(r)
             THEN pc' = "dd_settle" /\ lastExc' = lastExc
             ELSE pc' = "r_except" /\ lastExc' = "sync_failed"
    /\ UNCHANGED <<ddFrame, mountLog, destOnMount>>

\* lines 897-899: time.sleep(5); the device may take the file away meanwhile
DDSettle ==
    /\ pc = "dd_settle"
    /\ ddSteps' = Append(ddSteps, "settle")
    /\ \E stays \in BOOLEAN : destOnMount' = (destOnMount /\ stays)
    /\ pc' = "dd_verify"
    /\ UNCHANGED <<ddFrame, lastExc, mountLog, syncResult>>

\* lines 901-909: the destination file must exist, then return True
DragDropAttempt ==
    /\ pc = "dd_verify"
    /\ ddSteps' = Append(ddSteps, "verify")
    /\ IF VerifyOk(destOnMount)
       THEN lastExc' = lastExc /\ pc' = "r_return"
       ELSE lastExc' = "not_on_device" /\ pc' = "r_except"
    /\ UNCHANGED <<ddFrame, mountLog, destOnMount, syncResult>>

\* lines 129-131: the result is returned to the caller
RetryReturn ==
    /\ pc = "r_return"
    /\ rstatus = "running"
    /\ rstatus' = "returned"
    /\ completed' = completed \cup {op}
    /\ UNCHANGED <<auxVars, args, childTimeout, mode, toolVars, devVars, ddVars, envVars, shutdown_requested, signals, pc, exitcode, op,
                   attempt, lastExc, sleeps, calls, fails, sleepCancelled, diskVars,
                   exhausted, icesprogW, usbSeen>>

\* the caller continues after a successful retry_operation
AfterReturn ==
    /\ pc = "r_return"
    /\ rstatus = "returned"
    /\ Goto(ReturnTarget(op))
    /\ IF ReturnTarget(op) \in Ops THEN TRUE ELSE rstatus' = rstatus
    /\ UNCHANGED <<auxVars, args, childTimeout, mode, toolVars, devVars, ddVars, envVars, shutdown_requested, signals, exitcode, diskVars,
                   histVars>>

\* lines 132-138: the exception handler: re-raise on the last attempt,
\* otherwise log and sleep delay * 2**attempt
RetryExcept ==
    /\ pc = "r_except"
    /\ fails' = fails + 1
    /\ IF ShouldReraise(attempt, lastExc)
       THEN /\ rstatus' = "raised"
            /\ exhausted' = exhausted \cup {op}
            /\ pc' = "r_raise"
            /\ sleeps' = sleeps
            /\ raised' = RaisedError(op, lastExc)
       ELSE /\ rstatus' = rstatus
            /\ exhausted' = exhausted
            /\ pc' = "r_sleep"
            /\ sleeps' = Append(sleeps, BackoffDelay(RETRY_DELAY, attempt))
            /\ raised' = raised
    /\ UNCHANGED <<exceptRaised, args, childTimeout, mode, toolVars, devVars, ddVars, envVars, shutdown_requested, signals, exitcode, op, attempt,
                   lastExc, calls, sleepCancelled, diskVars, completed, icesprogW,
                   usbSeen>>

\* line 123: `for attempt in range(max_retries)` hands out the next number
NextAttempt_same(a) == a
NextAttempt(a) == a + 1

\* line 137 returns after the full delay; the loop takes the next attempt
SleepDone ==
    /\ pc = "r_sleep"
    /\ attempt' = NextAttempt(attempt)
    /\ pc' = "r_check"
    /\ UNCHANGED <<auxVars, args, childTimeout, mode, toolVars, devVars, ddVars, envVars, shutdown_requested, signals, exitcode, op, rstatus,
                   lastExc, sleeps, calls, fails, sleepCancelled, diskVars, histVars>>

\* the exception leaves retry_operation and reaches the caller's handler:
\* build_fpga line 839, program_fpga lines 915, 922, 928
AfterRaise ==
    /\ pc = "r_raise"
    /\ Goto(RaiseTarget(op))
    /\ IF RaiseTarget(op) \in Ops THEN TRUE ELSE rstatus' = rstatus
    /\ raised' = NoError
    /\ UNCHANGED <<exceptRaised, args, childTimeout, mode, toolVars, devVars, ddVars, envVars, shutdown_requested, signals, exitcode, diskVars,
                   histVars>>

(* ---------------- build_fpga ---------------- *)

\* lines 831-837: verify the output files, then return them
BuildVerify ==
    /\ pc = "b_verify"
    /\ IF OutputsVerified(disk)
       THEN pc' = "after_build" /\ lastExc' = lastExc
       ELSE pc' = "b_cleanup" /\ lastExc' = "missing_output"
    /\ UNCHANGED <<auxVars, args, childTimeout, mode, toolVars, devVars, ddVars, envVars, shutdown_requested, signals, exitcode, op, attempt,
                   rstatus, sleeps, calls, fails, sleepCancelled, diskVars, histVars>>

\* lines 839-847: remove every existing output file, ignoring OSError, re-raise
BuildCleanup ==
    /\ pc = "b_cleanup"
    /\ \E stuck \in SUBSET (disk \cap CleanupTargets) :
          /\ disk' = (disk \ CleanupTargets) \cup stuck
          /\ removeFailed' = stuck
          /\ cleanupRemoved' = (disk \cap CleanupTargets) \ stuck
    /\ pc' = "m_except"
    /\ UNCHANGED <<auxVars, args, childTimeout, mode, toolVars, devVars, ddVars, envVars, shutdown_requested, signals, exitcode, retryVars,
                   histVars>>

(* ---------------- main, after the build ---------------- *)

\* line 1191: with --build-only main returns before program_fpga
SkipProgramming_never(build_only) == FALSE
SkipProgramming(build_only) == build_only

\* lines 1191-1196: build-only returns 0, otherwise program_fpga is entered
MainAfterBuild ==
    /\ pc = "after_build"
    /\ IF SkipProgramming(args.build_only)
       THEN Return(0) /\ UNCHANGED retryVars
       ELSE StartRetry(FirstStrategy(args.force_dragdrop)) /\ UNCHANGED exitcode
    /\ UNCHANGED <<auxVars, args, childTimeout, mode, toolVars, devVars, ddVars, envVars, shutdown_requested, signals, diskVars, histVars>>

\* lines 1196-1198: program_fpga returned False
MainProgramFailed ==
    /\ pc = "pf_false"
    /\ Return(ProgramExit(FALSE))
    /\ UNCHANGED <<auxVars, args, childTimeout, mode, toolVars, devVars, ddVars, envVars, shutdown_requested, signals, retryVars, diskVars,
                   histVars>>

\* line 1201: `if not args.no_clean:` guards the cleanup
CleanArtifacts_always(no_clean) == TRUE
CleanArtifacts(no_clean) == ~no_clean

\* lines 1200-1218: clean the artifacts unless --no-clean, restore os.environ;
\* temporary_files (lines 99-106) removes each existing file and only warns
\* when os.remove raises OSError
MainProgramDone ==
    /\ pc = "pf_true"
    /\ IF CleanArtifacts(args.no_clean)
       THEN \E stuck \in SUBSET (disk \cap Artifacts) :
               /\ disk' = (disk \ Artifacts) \cup stuck
               /\ removeFailed' = stuck
               /\ cleanupRemoved' = (disk \cap Artifacts) \ stuck
       ELSE UNCHANGED diskVars
    /\ environ' = original_env
    /\ Return(ProgramExit(TRUE))
    /\ UNCHANGED <<auxVars, args, childTimeout, mode, toolVars, devVars, ddVars, envFileExists, original_env, shutdown_requested, signals,
                   retryVars, histVars>>

\* lines 1220-1246: the handlers restore os.environ and return 1
MainExcept ==
    /\ pc = "m_except"
    /\ environ' = original_env
    /\ Return(1)
    /\ UNCHANGED <<auxVars, args, childTimeout, mode, toolVars, devVars, ddVars, envFileExists, original_env, shutdown_requested, signals,
                   retryVars, diskVars, histVars>>

Next ==
    \/ signal_handler
    \/ MainStart
    \/ MainParse
    \/ MainDeviceCheck
    \/ MainDeviceRun
    \/ MainDeviceExit
    \/ MainInputs
    \/ MainTools
    \/ MainCheckUsb
    \/ BuildStart
    \/ RetryCheck
    \/ RunCmdEnter
    \/ RunCmdProgressEnter
    \/ ChildExit
    \/ StreamCancel
    \/ StreamReadError
    \/ StrayExit
    \/ DDCheckExisting
    \/ DDActiveRecheck
    \/ DDDiscover
    \/ DDMountTable
    \/ DDMount
    \/ DDResolveFailed
    \/ DDAccess
    \/ DDCopy
    \/ DDSync
    \/ DDSettle
    \/ DragDropAttempt
    \/ RetryReturn
    \/ AfterReturn
    \/ RetryExcept
    \/ SleepDone
    \/ AfterRaise
    \/ BuildVerify
    \/ BuildCleanup
    \/ MainAfterBuild
    \/ MainProgramFailed
    \/ MainProgramDone
    \/ MainExcept

Spec == Init /\ [][Next]_vars

(* ---------------- names derived from the command line ---------------- *)

\* characters of the file names of the model
Alphabet == {"t", ".", "/", ",", " "}
\* longest args.verilog_file explored
MaxLen == 4
Strings(n) == UNION {[1..k -> Alphabet] : k \in 1..n}

\* the command line of the documented example
TopV == <<"t", "o", "p", ".", "v">>
\* an explicitly given pin-constraint file
GivenPcf == <<"x", ".", "p", "c", "f">>

\* str.split(sep)
RECURSIVE split(_, _)
split(str, sep) ==
    IF \A i \in DOMAIN str : str[i] # sep
    THEN <<str>>
    ELSE LET i == CHOOSE i \in DOMAIN str :
                    str[i] = sep /\ \A j \in 1..(i-1) : str[j] # sep
         IN <<SubSeq(str, 1, i-1)>> \o split(SubSeq(str, i+1, Len(str)), sep)

\* str.strip()
RECURSIVE strip(_)
strip(str) ==
    IF str # <<>> /\ str[1] = " " THEN strip(Tail(str))
    ELSE IF str # <<>> /\ str[Len(str)] = " " THEN strip(SubSeq(str, 1, Len(str) - 1))
    ELSE str

\* pathlib: the name of a path is its last component; empty components and
\* "." components are dropped when the path is parsed
PathName(path) ==
    LET parts == SelectSeq(split(path, "/"), LAMBDA c : c # <<>> /\ c # <<".">>)
    IN IF parts = <<>> THEN <<>> ELSE parts[Len(parts)]

\* pathlib's stem: the name without its last suffix; a leading or a trailing
\* dot starts no suffix
Stem_whole(path) == PathName(path)
Stem(path) ==
    LET name == PathName(path)
        dots == {i \in DOMAIN name : name[i] = "."}
        last == IF dots = {} THEN 0 ELSE CHOOSE i \in dots : \A j \in dots : j <= i
    IN IF 1 < last /\ last < Len(name) THEN SubSeq(name, 1, last - 1) ELSE name

\* os.path.join(a, b) for a relative directory a
Join(a, b) == IF b # <<>> /\ b[1] = "/" THEN b ELSE a \o <<"/">> \o b

\* the file name extensions of build_fpga's outputs, lines 788-790
Ext(k) ==
    CASE k = "json" -> <<"j", "s", "o", "n">>
      [] k = "asc"  -> <<"a", "s", "c">>
      [] k = "bin"  -> <<"b", "i", "n">>

InitPaths ==
    /\ verilog_arg \in Strings(MaxLen) \cup {TopV}
    /\ pcf_arg \in {<<>>, GivenPcf}
    /\ derived = FALSE
    /\ pcf_file = <<>>
    /\ basename = <<>>
    /\ output_files = [k \in Artifacts |-> <<>>]
    /\ args = DefaultArgs
    /\ envFileExists = FALSE
    /\ disk = {}
    /\ InitFlow
    /\ InitLogIdle
    /\ InitPushIdle

\* main, lines 1159-1160 and 1188; build_fpga, lines 784-791
DerivePaths ==
    /\ ~derived
    /\ verilog_arg # <<>>
    /\ LET parts == split(verilog_arg, ",")
           verilog_files == [i \in DOMAIN parts |-> strip(parts[i])]
       IN /\ pcf_file' = IF pcf_arg # <<>> THEN pcf_arg
                         ELSE Stem(verilog_files[1]) \o <<".", "p", "c", "f">>
          /\ basename' = Stem(verilog_files[1])
          /\ output_files' = [k \in Artifacts |->
                                Join(<<"o", "u", "t">>, basename' \o <<".">> \o Ext(k))]
    /\ derived' = TRUE
    /\ UNCHANGED <<flowVars, verilog_arg, pcf_arg, logVars, pushVars>>

SpecPaths == InitPaths /\ [][DerivePaths]_vars

(* ---------------- the run log ---------------- *)

MAX_LOG_LINES == 100

\* log records emitted in one exploration
MaxEmits == 5
\* most lines of one log record (a message may contain newlines)
MaxRecordLines == 2
MaxFiles == 3
\* lengths of the log file found at the start of a run
StartLengths == {0, MAX_LOG_LINES - 1, MAX_LOG_LINES + 2}

\* rotate_log_file, line 183: lines[-MAX_LOG_LINES:]
Retained_oldest(lines) == SubSeq(lines, 1, MAX_LOG_LINES)
Retained(lines) == SubSeq(lines, Len(lines) - MAX_LOG_LINES + 1, Len(lines))

\* rotate_log_file, lines 177-185: readable says that reading and rewriting
\* the file raised nothing; any exception is swallowed
rotate_log_file(lines, readable) ==
    IF readable /\ Len(lines) > MAX_LOG_LINES THEN Retained(lines) ELSE lines

InitLog ==
    /\ \E n \in StartLengths :
          /\ logFile = [i \in 1..n |-> i]
          /\ written = n
    /\ emitted = 0
    /\ rotated = "none"
    /\ args = DefaultArgs
    /\ envFileExists = FALSE
    /\ disk = {}
    /\ InitFlow
    /\ InitPathsIdle
    /\ InitPushIdle

\* new_emit, lines 190-193: the handler appends the record, then the file is
\* rotated
Emit ==
    /\ emitted < MaxEmits
    /\ \E k \in 1..MaxRecordLines, readable \in BOOLEAN :
          /\ logFile' = rotate_log_file(logFile \o [i \in 1..k |-> written + i], readable)
          /\ written' = written + k
          /\ rotated' = IF readable THEN "ok" ELSE "failed"
    /\ emitted' = emitted + 1
    /\ UNCHANGED <<flowVars, pathVars, pushVars>>

SpecLog == InitLog /\ [][Emit]_vars

(* ---------------- one retry_operation call on its own ---------------- *)

\* main has reached build_fpga's first retry_operation call (line 827): the
\* command line asked for a build, the environment was snapshotted and
\* possibly sourced (lines 941-944), all required tools resolved (lines
\* 728-740), the USB check ran, and signals may have arrived already
InitRetry ==
    /\ args \in {[DefaultArgs EXCEPT !.build_only = b, !.force_dragdrop = d,
                                      !.no_clean = n, !.verbose = vb] :
                    b \in BOOLEAN, d \in BOOLEAN, n \in BOOLEAN, vb \in BOOLEAN}
    /\ envFileExists \in BOOLEAN
    /\ disk \in {{}, {"bin"}, Artifacts}
    /\ original_env = AmbientEnv
    /\ environ \in {source_oss_cad_suite(AmbientEnv, envFileExists, ok) : ok \in BOOLEAN}
    /\ sourcings \in {Sourced(Sourced(0, envFileExists, 1), envFileExists, k) :
                         k \in IF envFileExists /\ environ = AmbientEnv
                               THEN 0..Len(REQUIRED_TOOLS) ELSE {0}}
    /\ signals \in 0..MaxSignals
    /\ shutdown_requested = (signals > 0)
    /\ usbSeen \in {"absent", "present"}
    /\ examined = REQUIRED_TOOLS
    /\ missing_tools = <<>>
    /\ unresolved = {}
    /\ pc = "r_check"
    /\ exitcode = -1
    /\ op = "synth"
    /\ attempt = 0
    /\ rstatus = "running"
    /\ lastExc = "none"
    /\ sleeps = <<>>
    /\ calls = 0
    /\ fails = 0
    /\ sleepCancelled = FALSE
    /\ removeFailed = {}
    /\ cleanupRemoved = {}
    /\ completed = {}
    /\ exhausted = {}
    /\ icesprogW = FALSE
    /\ childTimeout = NoChild
    /\ mode = "none"
    /\ probeResult = "none"
    /\ devIssued = "none"
    /\ mountLog = <<>>
    /\ ddSteps = <<>>
    /\ destOnMount = FALSE
    /\ syncResult = "none"
    /\ stray = {}
    /\ raised = NoError
    /\ InitPathsIdle
    /\ InitLogIdle
    /\ InitPushIdle

\* retry_operation, lines 123-138, and the operation it invokes: the steps of
\* the call itself
RetryStep ==
    \/ RetryCheck
    \/ RunCmdEnter
    \/ RunCmdProgressEnter
    \/ ChildExit
    \/ StreamCancel
    \/ StreamReadError
    \/ RetryExcept
    \/ SleepDone
    \/ RetryReturn

NextRetry ==
    \/ signal_handler
    \/ StrayExit
    \/ RetryStep

\* the interpreter keeps executing the call: every child process ends and
\* every time.sleep returns
SpecRetry == InitRetry /\ [][NextRetry]_vars /\ WF_vars(RetryStep)

(* ---------------- ssh_push.py: push_files ---------------- *)

\* ways the ssh and scp children of ssh_push.py can end: exit status zero or
\* non-zero, or subprocess.run raises (timeout, executable not found)
RunResults == {"zero", "nonzero", "raised"}

\* ensure_remote_directory, lines 209-228: True only for exit status zero
ensure_remote_directory(r) == r = "zero"

\* push_files, lines 192-194: a transfer counts when scp exited zero
Counts(outcome) == outcome = "zero"

\* push_files, line 207: return success_count == total_files
PushResult_anySuccess(count, total) == IF count > 0 THEN "true" ELSE "false"
PushResult(count, total) == IF count = total THEN "true" ELSE "false"

\* a call push_files(files, config): the configuration is {} or holds
\* hostname and remote_dir, and up to MaxFiles files are listed
InitPush ==
    /\ config \in {"empty", "set"}
    /\ files \in {[i \in 1..n |-> i] : n \in 0..MaxFiles}
    /\ pushPc = "enter"
    /\ mkdir = "none"
    /\ scp = <<>>
    /\ success_count = 0
    /\ pushed = "none"
    /\ args = DefaultArgs
    /\ envFileExists = FALSE
    /\ disk = {}
    /\ InitFlow
    /\ InitPathsIdle
    /\ InitLogIdle

pushFrame == <<flowVars, pathVars, logVars, config, files>>

\* lines 150-156: the two early returns
PushEnter ==
    /\ pushPc = "enter"
    /\ IF config = "empty" \/ files = <<>>
       THEN pushPc' = "done" /\ pushed' = "false"
       ELSE pushPc' = "mkdir" /\ pushed' = pushed
    /\ UNCHANGED <<pushFrame, mkdir, scp, success_count>>

\* lines 162-165: the remote directory is created, or push_files returns False
PushEnsureDirectory ==
    /\ pushPc = "mkdir"
    /\ \E r \in RunResults :
          /\ mkdir' = r
          /\ IF ensure_remote_directory(r)
             THEN pushPc' = "loop" /\ pushed' = pushed
             ELSE pushPc' = "done" /\ pushed' = "false"
    /\ UNCHANGED <<pushFrame, scp, success_count>>

\* lines 170-203: one iteration of `for file_path in files`: a file that
\* does not exist is skipped, otherwise scp runs
PushFile ==
    /\ pushPc = "loop"
    /\ Len(scp) < Len(files)
    /\ \E exists \in BOOLEAN, r \in RunResults :
          LET outcome == IF exists THEN r ELSE "missing"
          IN /\ scp' = Append(scp, outcome)
             /\ success_count' = IF Counts(outcome) THEN success_count + 1
                                                    ELSE success_count
    /\ UNCHANGED <<pushFrame, pushPc, mkdir, pushed>>

\* lines 205-207: after the loop
PushReturn ==
    /\ pushPc = "loop"
    /\ Len(scp) = Len(files)
    /\ pushed' = PushResult(success_count, Len(files))
    /\ pushPc' = "done"
    /\ UNCHANGED <<pushFrame, mkdir, scp, success_count>>

NextPush ==
    \/ PushEnter
    \/ PushEnsureDirectory
    \/ PushFile
    \/ PushReturn

SpecPush == InitPush /\ [][NextPush]_vars

TypeOK ==
    /\ args \in ArgSpace
    /\ syncResult \in SyncResults \cup {"none"}
    /\ mode \in {"none", "captured", "inherited", "streamed"}
    /\ shutdown_requested \in BOOLEAN
    /\ attempt \in 0..(MAX_RETRIES - 1)
    /\ exitcode \in {-1, 0, 1}
    /\ disk \subseteq Artifacts

(* ======================= properties ======================= *)

\* C1: on every exit path of main() the process environment equals the
\* snapshot taken at run start
EnvRestoredOnEveryExit ==
    pc = "done" => environ = original_env

\* C2: a cancellation seen by the check before an attempt makes
\* retry_operation fail at once: while the call is still running it is only
\* ever in its exception handler, never in a backoff sleep or a later attempt
CancelBeforeAttemptFailsImmediately ==
    (rstatus = "running" /\ lastExc = "cancelled") => pc = "r_except"

\* C3: after a cancellation request during a backoff sleep the call does not
\* leave the sleep into a further attempt or sleep
CancelDuringSleepAborts ==
    (rstatus = "running" /\ sleepCancelled) => pc = "r_sleep"

\* C4: without force_dragdrop, once strategy A has exhausted its attempts
\* strategy B's retry is entered; program_fpga returns False only after
\* strategy B failed MAX_RETRIES attempts; it returns True exactly when one of
\* the two strategies succeeded
FallbackToDragDrop ==
    ~args.force_dragdrop =>
        /\ ("icesprog" \in exhausted /\ ~(pc = "r_raise" /\ op = "icesprog"))
              => op = "dragdrop"
        /\ pc = "pf_false"
              => /\ "icesprog" \in exhausted
                 /\ "dragdrop" \in exhausted
                 /\ op = "dragdrop" /\ fails = MAX_RETRIES
        /\ pc = "pf_true" => (completed \cap {"icesprog", "dragdrop"} # {})
        /\ (completed \cap {"icesprog", "dragdrop"} # {})
              => /\ pc \in {"r_return", "pf_true", "done"}
                 /\ pc = "done" => exitcode = 0
                 /\ "dragdrop" \notin exhausted
FallbackWitness ==
    /\ ~args.force_dragdrop
    /\ pc = "pf_true"
    /\ "icesprog" \in exhausted
    /\ "dragdrop" \in completed

\* C5: with force_dragdrop the tool "icesprog -w" is never started
ForceDragDropSkipsIcesprog ==
    args.force_dragdrop => (~icesprogW /\ "icesprog" \notin (completed \cup exhausted))
ForceDragDropWitness ==
    /\ args.force_dragdrop
    /\ pc = "pf_false"
    /\ "dragdrop" \in exhausted

\* C6: a stage runs only when every earlier stage has returned successfully
\* and no stage has exhausted its retries
EarlierStages(o) ==
    CASE o = "synth" -> {}
      [] o = "pnr"   -> {"synth"}
      [] o = "pack"  -> {"synth", "pnr"}
StagesInOrder ==
    (op \in Stages /\ pc \in {"r_call", "r_child"}) =>
        /\ EarlierStages(op) \subseteq completed
        /\ completed \cap Stages = EarlierStages(op)
        /\ exhausted = {}
StagesInOrderWitness ==
    /\ op = "pack"
    /\ pc = "r_child"
    /\ completed = {"synth", "pnr"}

\* C7: the i-th backoff delay of a call is RETRY_DELAY * 2^(i-1), every
\* failed attempt but the last is followed by exactly one delay, and a call
\* that returns after failing attempts 1 and 2 has slept exactly twice, the
\* second delay double the first
BackoffSchedule ==
    /\ \A i \in 1..Len(sleeps) : sleeps[i] = RETRY_DELAY * (2 ^ (i - 1))
    /\ pc # "r_except" =>
          Len(sleeps) = IF rstatus = "raised" THEN fails - 1 ELSE fails
    /\ (pc = "r_return" /\ calls = 3 /\ fails = 2)
          => /\ Len(sleeps) = 2
             /\ sleeps[2] = 2 * sleeps[1]
BackoffWitness ==
    /\ pc = "r_return"
    /\ rstatus = "returned"
    /\ calls = 3
    /\ fails = 2
    /\ lastExc \in {"nonzero", "timeout"}

BuildReturnsOnlyWithArtifacts ==
    /\ [](pc = "after_build" => (Stages \subseteq completed /\ Artifacts \subseteq disk))
    /\ [][(pc = "b_verify" /\ pc' # "b_verify") =>
             IF Artifacts \subseteq disk
             THEN pc' = "after_build"
             ELSE pc' = "b_cleanup" /\ lastExc' = "missing_output"]_vars
MissingArtifactWitness ==
    /\ pc = "b_cleanup"
    /\ lastExc = "missing_output"
    /\ Stages \subseteq completed
    /\ ~(Artifacts \subseteq disk)

\* C10: the exception handler of retry_operation does the same for a timed
\* out attempt as for a non-zero exit: one failed attempt, then the backoff
\* delay of that attempt while attempts remain, otherwise the re-raise
TimeoutRetriedLikeNonZero ==
    [][(pc = "r_except" /\ lastExc \in {"timeout", "nonzero"} /\ pc' # pc) =>
          /\ fails' = fails + 1
          /\ IF attempt < MAX_RETRIES - 1
             THEN /\ pc' = "r_sleep"
                  /\ sleeps' = Append(sleeps, RETRY_DELAY * (2 ^ attempt))
                  /\ rstatus' = "running"
             ELSE /\ pc' = "r_raise"
                  /\ sleeps' = sleeps
                  /\ rstatus' = "raised"]_vars
TimeoutRetriedWitness ==
    /\ pc = "r_check"
    /\ attempt = 1
    /\ lastExc = "timeout"
    /\ sleeps = <<RETRY_DELAY>>

\* C11: the wait for the child of every build stage or programming attempt is
\* bounded by a timeout, in streamed mode as in captured mode
EveryChildHasTimeout ==
    pc = "r_child" => childTimeout > NoTimeout

\* C12: check_required_tools passes every required tool to check_command,
\* also after a missing one, and raises one error exactly when some tool
\* resolves neither under the ambient nor under the sourced PATH; the error
\* lists exactly those tools
AllMissingToolsReported ==
    examined # <<>> =>
        /\ examined = REQUIRED_TOOLS
        /\ Range(missing_tools) = unresolved
        /\ Len(missing_tools) = Cardinality(unresolved)
        /\ (unresolved # {}) = (lastExc = "tools_missing")
        /\ unresolved # {} => pc \in {"m_except", "done"}
MissingToolsWitness ==
    /\ pc = "m_except"
    /\ lastExc = "tools_missing"
    /\ missing_tools = <<"yosys", "icesprog">>
    /\ examined = REQUIRED_TOOLS

\* C13: after a failed input validation or with an unresolved required tool
\* the run goes straight to the error handler and exit status 1: no
\* retry_operation call is made, no child of a build stage or of the
\* programmer is started and no mass-storage step is taken
InvalidInputOrMissingToolIsFatal ==
    (lastExc = "validation" \/ unresolved # {}) =>
        /\ pc \in {"m_except", "done"}
        /\ pc = "done" => exitcode = 1
        /\ rstatus = "none" /\ calls = 0 /\ sleeps = <<>>
        /\ childTimeout = NoChild
        /\ ~icesprogW
        /\ completed = {} /\ exhausted = {}
        /\ ddSteps = <<>>
InvalidInputWitness ==
    /\ pc = "done"
    /\ exitcode = 1
    /\ lastExc = "validation"
    /\ examined = <<>>

\* C14: when check_usb_device finds no device (or lsusb fails), the run
\* still enters build_fpga and its stages
UsbAbsenceNotFatal ==
    usbSeen = "absent" => (pc = "build" \/ rstatus # "none")
UsbAbsenceWitness ==
    /\ usbSeen = "absent"
    /\ op = "synth"
    /\ pc = "r_child"

\* C15: when the status probe of a device command (erase, probe, read, GPIO,
\* clock) reports the device absent or inaccessible, main returns 1 and the
\* requested command is never handed to run_cmd
AbsentDeviceBlocksCommand ==
    probeResult \in {"open_fail_rc0", "nonzero", "timeout", "notfound"} =>
        /\ DeviceCommand(args) \in {"erase", "probe", "read", "gpio", "clk"}
        /\ pc = "done"
        /\ exitcode = 1
        /\ devIssued = "none"
        /\ childTimeout = NoChild
AbsentDeviceWitness ==
    /\ probeResult = "open_fail_rc0"
    /\ DeviceCommand(args) = "clk"
    /\ pc = "done"
    /\ exitcode = 1

\* C16: the mount point is resolved in the order listing, glob, active
\* discovery: the first step is lsblk, a glob directly follows an lsblk that
\* gave no mount point, active discovery starts only after the existing-mount
\* check found nothing, and a step that yields a mount point is the last one
MountResolutionOrder ==
    /\ mountLog # <<>> => mountLog[1].s = "lsblk"
    /\ \A i \in DOMAIN mountLog :
          /\ mountLog[i].s = "glob"
                => i > 1 /\ mountLog[i-1] = Step("lsblk", "none")
          /\ mountLog[i].s = "active"
                => /\ i \in {2, 3}
                   /\ \A j \in 1..(i-1) : mountLog[j].s \in {"lsblk", "glob"}
          /\ mountLog[i].s \in {"discover", "mounttable", "makedirs", "mount", "ismount"}
                => \E j \in 1..(i-1) : mountLog[j].s = "active"
          /\ mountLog[i].r = "found" => i = Len(mountLog)
    /\ (pc = "dd_access") => FoundMount(mountLog)
    /\ (pc \in {"dd_active", "dd_discover", "dd_mounttable", "dd_mount", "dd_mount_error"})
          => \A i \in DOMAIN mountLog : mountLog[i].r # "found"
MountResolutionWitness ==
    /\ pc = "dd_access"
    /\ Len(mountLog) > 3
    /\ mountLog[1] = Step("lsblk", "none")
    /\ mountLog[2] = Step("glob", "none")
    /\ mountLog[3] = Step("active", "none")
    /\ mountLog[Len(mountLog)] = Step("ismount", "found")

\* C17: find_icelink_mount raises only after the listing, the glob and the
\* active discovery have each been attempted
MountErrorOnlyAfterAllSteps ==
    pc = "dd_mount_error"
        => \A n \in {"lsblk", "glob", "discover"} :
              \E i \in DOMAIN mountLog : mountLog[i].s = n

DragDropOrder == <<"resolve", "access", "copy", "sync", "settle", "verify">>

\* C18: a drag-and-drop attempt takes its steps in the order resolve, access,
\* copy, sync, settle, verify; it succeeds only when all were taken and the
\* file is on the device; a file absent at verification fails the attempt into
\* the retry handler, which sleeps and tries again while attempts remain
DragDropStepsInOrder ==
    /\ [](/\ Len(ddSteps) <= Len(DragDropOrder)
          /\ ddSteps = SubSeq(DragDropOrder, 1, Len(ddSteps))
          /\ (op = "dragdrop" /\ pc = "r_return")
                => (ddSteps = DragDropOrder /\ destOnMount))
    /\ [][/\ (pc = "dd_verify" /\ pc' # pc)
                => /\ ddSteps' = DragDropOrder
                   /\ IF destOnMount
                      THEN pc' = "r_return"
                      ELSE pc' = "r_except" /\ lastExc' = "not_on_device"
          /\ (pc = "r_except" /\ op = "dragdrop" /\ lastExc = "not_on_device"
                /\ attempt < MAX_RETRIES - 1 /\ pc' # pc)
                => pc' = "r_sleep"]_vars
DragDropRetryWitness ==
    /\ op = "dragdrop"
    /\ pc = "r_call"
    /\ attempt = 1
    /\ lastExc = "not_on_device"
    /\ ddSteps = DragDropOrder
    /\ ~destOnMount

\* the run asks for a build: arguments parse, no device command, a verilog file
BuildRequested ==
    /\ args.parse = "ok"
    /\ DeviceCommand(args) = "none"
    /\ args.verilog_file

\* every requested phase succeeded: all stages completed and build_fpga
\* returned, and unless build-only one programming strategy succeeded
FullSuccess ==
    /\ Stages \subseteq completed
    /\ unresolved = {}
    /\ IF args.build_only
       THEN OutputsVerified(disk)
       ELSE completed \cap {"icesprog", "dragdrop"} # {}

CancellationFlagMonotonic ==
    /\ [](signals = 0 <=> ~shutdown_requested)
    /\ [][/\ shutdown_requested => shutdown_requested'
          /\ signals' > signals => shutdown_requested'
          /\ shutdown_requested' # shutdown_requested => signals' > signals]_vars
RepeatedSignalWitness ==
    /\ signals = 2
    /\ shutdown_requested
    /\ pc \notin {"main_start", "done"}

\* C21: when a call ends with a cancellation error, the child it had started
\* has been sent the termination signal or has already exited: outside a call
\* that waits for its child there is never a running child that was not
\* signalled
CancelTerminatesChild ==
    /\ [](childTimeout = NoChild => "running" \notin stray)
    /\ [][(pc = "r_child" /\ pc' = "r_except" /\ lastExc' = "cancelled_stream")
             => (shutdown_requested /\ "signalled" \in stray')]_vars
CancelTerminatesWitness ==
    /\ pc = "r_except"
    /\ lastExc = "cancelled_stream"
    /\ stray = {"signalled"}
    /\ childTimeout = NoChild

\* C22: a child is started or waited for only when no earlier child is alive
AtMostOneChildAlive ==
    childTimeout # NoChild => stray = {}

\* C24: the error that leaves retry_operation after the last failed attempt is
\* an aggregate error that names the operation and wraps the failure of the
\* last attempt
ExhaustionRaisesAggregate ==
    pc = "r_raise"
        => /\ raised.aggregate
           /\ raised.name = op
           /\ raised.cause = lastExc

\* C28: the activation subshell is run at most once in a run
ToolchainSourcedOnce ==
    sourcings <= 1

\* C25: with --build-only no programming strategy is ever entered, and the
\* step after a successful build is the return of exit status 0
BuildOnlySkipsProgramming ==
    /\ [](args.build_only
            => /\ op \notin {"icesprog", "dragdrop"}
               /\ ~icesprogW
               /\ ddSteps = <<>>
               /\ (completed \cup exhausted) \cap {"icesprog", "dragdrop"} = {})
    /\ [][(pc = "after_build" /\ args.build_only /\ pc' # pc)
             => (pc' = "done" /\ exitcode' = 0)]_vars
BuildOnlyWitness ==
    /\ args.build_only
    /\ pc = "done"
    /\ exitcode = 0
    /\ Stages \subseteq completed
    /\ OutputsVerified(disk)

\* C26: a run given a Verilog file together with a clock selection that ends
\* with exit status 0 has built and programmed the design
ClockSelectionAlsoBuilds ==
    (pc = "done" /\ exitcode = 0 /\ args.parse = "ok" /\ args.verilog_file
        /\ DeviceCommand(args) = "clk")
        => /\ Stages \subseteq completed
           /\ completed \cap {"icesprog", "dragdrop"} # {}

\* the mount commands issued by the current find_and_mount_icelink_device call
MountCommands == SelectSeq(mountLog, LAMBDA e : e.s = "mount")
\* the filesystem type chosen for the first mount command
ChosenType == SelectSeq(mountLog, LAMBDA e : e.s = "blkid")[1].r
MountCallEnded == pc \in {"dd_access", "dd_mount_error"} /\ MountCommands # <<>>

\* C29 as stated: a failed first mount command is followed by exactly one
\* further mount command, whatever the filesystem type
FailedMountAlwaysRetried ==
    (MountCallEnded /\ MountCommands[1].r = "failed") => Len(MountCommands) = 2

\* C29: no call issues more than two mount commands, and a second one is
\* issued exactly when the first one failed and its type was not "auto"
FailedTypedMountRetriedOnce ==
    /\ Len(MountCommands) <= 2
    /\ MountCallEnded
         => (Len(MountCommands) = 2
               <=> (MountCommands[1].r = "failed" /\ ChosenType # "auto"))
TypedMountRetryWitness ==
    /\ pc = "dd_access"
    /\ MountCommands = <<Step("mount", "failed"), Step("mount", "ok")>>
    /\ ChosenType = "vfat"

FirstSource ==
    LET commas == {i \in DOMAIN verilog_arg : verilog_arg[i] = ","}
        cut == IF commas = {} THEN Len(verilog_arg) + 1
               ELSE CHOOSE i \in commas : \A j \in commas : i <= j
        raw == SubSeq(verilog_arg, 1, cut - 1)
        inked == {i \in DOMAIN raw : raw[i] # " "}
    IN IF inked = {} THEN <<>>
       ELSE SubSeq(raw, CHOOSE i \in inked : \A j \in inked : i <= j,
                        CHOOSE i \in inked : \A j \in inked : j <= i)

\* positions lo..hi of path p hold only separators and "." components
Filler(p, lo, hi) ==
    \A k \in lo..hi :
        \/ p[k] = "/"
        \/ /\ p[k] = "."
           /\ (k = 1 \/ p[k-1] = "/")
           /\ (k = Len(p) \/ p[k+1] = "/")

\* b is the stem of path p: the last real component of p is p[i..e], and b is
\* that component up to its last interior dot
IsStemOf(b, p) ==
    \/ b = <<>> /\ Filler(p, 1, Len(p))
    \/ \E i \in DOMAIN p : \E j \in i..Len(p) : \E e \in j..Len(p) :
          /\ b = SubSeq(p, i, j)
          /\ i = 1 \/ p[i-1] = "/"
          /\ \A k \in i..e : p[k] # "/"
          /\ SubSeq(p, i, e) # <<".">>
          /\ e = Len(p) \/ p[e+1] = "/"
          /\ Filler(p, e + 1, Len(p))
          /\ \/ /\ e = j
                /\ \/ p[e] = "."
                   \/ \A k \in (i+1)..e : p[k] # "."
             \/ /\ e > j + 1
                /\ p[j+1] = "."
                /\ \A k \in (j+2)..e : p[k] # "."

\* C23: the base name is the stem of the first source, the pin-constraint
\* path is <base>.pcf unless one is given, and the outputs are
\* out/<base>.json, out/<base>.asc, out/<base>.bin whether or not one is
\* given; for top.v these are top.pcf, top, out/top.json, out/top.asc,
\* out/top.bin
NamesDerivedFromFirstSource ==
    derived =>
        /\ IsStemOf(basename, FirstSource)
        /\ pcf_file = IF pcf_arg = <<>> THEN basename \o <<".", "p", "c", "f">>
                      ELSE pcf_arg
        /\ output_files =
              [json |-> <<"o", "u", "t", "/">> \o basename \o <<".", "j", "s", "o", "n">>,
               asc  |-> <<"o", "u", "t", "/">> \o basename \o <<".", "a", "s", "c">>,
               bin  |-> <<"o", "u", "t", "/">> \o basename \o <<".", "b", "i", "n">>]
        /\ verilog_arg = TopV
              => /\ basename = <<"t", "o", "p">>
                 /\ pcf_arg = <<>> => pcf_file = <<"t", "o", "p", ".", "p", "c", "f">>
                 /\ output_files["bin"] = <<"o", "u", "t", "/", "t", "o", "p", ".", "b", "i", "n">>
NamesDerivedWitness ==
    /\ derived
    /\ verilog_arg = TopV
    /\ pcf_arg = GivenPcf
    /\ pcf_file = GivenPcf
    /\ basename = <<"t", "o", "p">>

SyncNeverFailsAttempt ==
    /\ [][(pc = "dd_sync" /\ pc' # pc)
            => /\ pc' = "dd_settle"
               /\ syncResult' \in SyncResults
               /\ lastExc' = lastExc
               /\ destOnMount' = destOnMount]_vars
    /\ [][(pc = "dd_settle" /\ pc' # pc) => pc' = "dd_verify"]_vars
    /\ [][(pc = "dd_verify" /\ pc' # pc)
            => pc' = (IF destOnMount THEN "r_return" ELSE "r_except")]_vars
SyncFailedAttemptSucceeded ==
    /\ op = "dragdrop"
    /\ pc = "r_return"
    /\ syncResult = "notfound"
    /\ ddSteps = DragDropOrder

\* C32: the mount point is never cached: every program_with_dragdrop attempt,
\* retries included, starts by running the existing-mount listing afresh, and
\* the write check and the copy are reached only with a mount point resolved
\* in the same attempt
MountResolvedEveryAttempt ==
    /\ [][(pc = "r_call" /\ op = "dragdrop" /\ pc' # pc)
            => /\ ddSteps' = <<"resolve">>
               /\ mountLog' # <<>>
               /\ mountLog'[1].s = "lsblk"]_vars
    /\ [](pc = "dd_access"
            => mountLog # <<>> /\ mountLog[1].s = "lsblk" /\ FoundMount(mountLog))
    /\ [](pc = "dd_copy" => ddSteps = <<"resolve", "access">>)
RetryResolvesAgain ==
    /\ op = "dragdrop"
    /\ attempt = MAX_RETRIES - 1
    /\ pc = "dd_access"
    /\ Len(mountLog) > 1
    /\ mountLog[1] = Step("lsblk", "none")

\* C33: each of the three build stages runs its tool in streamed mode exactly
\* when args.verbose is set, and in captured mode otherwise
StageModeFollowsVerbose ==
    (pc = "r_child" /\ op \in Stages)
        => mode = (IF args.verbose THEN "streamed" ELSE "captured")

\* C34: once shutdown_requested is set no wrapped operation is started again:
\* an attempt that begins with the flag set raises without invoking
\* operation(), an invocation is only ever entered from an attempt that began
\* with the flag clear, and a child process or a copy to the mount point is
\* only ever started from inside an invocation
NoInvocationAfterCancel ==
    /\ [][(pc = "r_check" /\ shutdown_requested /\ pc' # pc)
            => /\ pc' = "r_except"
               /\ lastExc' = "cancelled"
               /\ calls' = calls
               /\ childTimeout' = NoChild
               /\ icesprogW' = icesprogW]_vars
    /\ [][(pc' = "r_call" /\ pc # "r_call")
            => (pc = "r_check" /\ ~shutdown_requested /\ calls' = calls + 1)]_vars
    /\ [][(pc' = "r_child" /\ pc # "r_child") => pc = "r_call"]_vars
    /\ [][(pc' = "dd_copy" /\ pc # "dd_copy")
            => (pc = "dd_access" /\ ddSteps[1] = "resolve")]_vars
    /\ [](pc \in {"dd_active", "dd_discover", "dd_mounttable", "dd_mount", "dd_access",
                    "dd_copy", "dd_sync", "dd_settle", "dd_verify"}
            => (op = "dragdrop" /\ calls = attempt + 1))
    /\ [](pc \in {"r_call", "r_child"} => calls = attempt + 1)
CancelledRetryWitness ==
    /\ op = "dragdrop"
    /\ "icesprog" \in exhausted
    /\ pc = "r_except"
    /\ lastExc = "cancelled"
    /\ attempt = 1
    /\ calls = 0
    /\ ~destOnMount

\* C35: retry_operation terminates when every invocation does: operation() is
\* invoked at most MAX_RETRIES times, once per attempt, never after the call
\* has returned or raised, the call returns at the first invocation that
\* succeeds, and every call eventually returns or raises
RetryOperationTerminates ==
    /\ [](calls <= MAX_RETRIES /\ calls <= attempt + 1)
    /\ [][calls' # calls
            => (rstatus = "running" /\ pc = "r_check" /\ calls' = calls + 1)]_vars
    /\ [][rstatus # "running" => (calls' = calls /\ pc' = pc /\ rstatus' = rstatus)]_vars
    /\ [](pc = "r_return" => calls = fails + 1)
    /\ [][(pc = "r_return" /\ rstatus = "running") => rstatus' \in {"running", "returned"}]_vars
    /\ <>(rstatus \in {"returned", "raised"})
ReturnsOnLastAttemptWitness ==
    /\ rstatus = "returned"
    /\ pc = "r_return"
    /\ calls = MAX_RETRIES
    /\ fails = MAX_RETRIES - 1

\* the order in which main can reach the wrapped operations
OpRank(o) ==
    CASE o = "none" -> 0
      [] o = "synth" -> 1
      [] o = "pnr" -> 2
      [] o = "pack" -> 3
      [] o = "icesprog" -> 4
      [] o = "dragdrop" -> 5

\* C36: retry budgets are per wrapped operation: every retry_operation call
\* starts at attempt 0 with no invocation counted, whatever the calls before
\* it used, and invokes its operation at most MAX_RETRIES times; the
\* drag-and-drop call after an exhausted icesprog call starts the same way;
\* and the operation only ever moves forward, so a stage that has returned
\* is never run again
RetryBudgetsIndependent ==
    /\ [][op' # op
            => /\ pc' = "r_check"
               /\ attempt' = 0
               /\ calls' = 0
               /\ fails' = 0
               /\ sleeps' = <<>>
               /\ OpRank(op') > OpRank(op)
               /\ op' \notin completed \cup exhausted]_vars
    /\ [](calls <= MAX_RETRIES /\ attempt < MAX_RETRIES)
    /\ [][completed \subseteq completed' /\ exhausted \subseteq exhausted']_vars
    /\ [](pc \in {"r_check", "r_call", "r_child", "r_except", "r_sleep"}
            => op \notin completed)
FullBudgetAfterExhaustion ==
    /\ ~shutdown_requested
    /\ op = "dragdrop"
    /\ "icesprog" \in exhausted
    /\ pc = "dd_copy"
    /\ attempt = MAX_RETRIES - 1
    /\ calls = MAX_RETRIES

DevicePriority == <<"erase", "probe", "read", "gpio", "jtag", "clk">>

\* the flag of device command c is on the command line a
FlagGiven(a, c) ==
    CASE c = "erase" -> a.erase
      [] c = "probe" -> a.probe
      [] c = "read" -> a.read
      [] c = "gpio" -> a.gpio # "none"
      [] c = "jtag" -> a.jtag_sel
      [] c = "clk" -> a.clk_sel

AnyDeviceFlag == \E i \in DOMAIN DevicePriority : FlagGiven(args, DevicePriority[i])

PushTrueIffAllTransferred ==
    /\ pushPc = "done" =>
          /\ pushed \in {"true", "false"}
          /\ pushed = "true" <=>
                /\ config = "set"
                /\ files # <<>>
                /\ mkdir = "zero"
                /\ Len(scp) = Len(files)
                /\ \A i \in DOMAIN scp : scp[i] = "zero"
          /\ (config = "empty" \/ files = <<>> \/ mkdir # "zero") => scp = <<>>
          /\ (config = "set" /\ files # <<>> /\ mkdir = "zero") => Len(scp) = Len(files)
    /\ pushPc # "done" => pushed = "none"
    /\ scp # <<>> => (config = "set" /\ mkdir = "zero")
PushContinuesAfterFailureWitness ==
    /\ pushPc = "done"
    /\ pushed = "false"
    /\ scp = <<"missing", "nonzero", "zero">>

====
